---------------------------- MODULE Spec2Model ----------------------------
(***************************************************************************)
(* Model of src/load_testing.py: the load generator that dispatches        *)
(* total_requests calls of send_request over a ThreadPoolExecutor,         *)
(* collects the outcomes with as_completed and reduces them with           *)
(* generate_report.                                                        *)
(*                                                                         *)
(* Texts (response bodies, error messages, dictionary keys) are sequences  *)
(* of one-character strings, so that slicing, splitting and str() are      *)
(* computed rather than assumed.  Numbers that are floats in the program   *)
(* are rationals <<numerator, denominator>> in lowest terms.               *)
(***************************************************************************)
EXTENDS Integers, Sequences, FiniteSets, TLC

(***************************************************************************)
(* Bounds of the model.                                                    *)
(***************************************************************************)
MaxRequests == 3
MaxWorkers == 2
MantissaBits == 3
MaxProgressRequests == 11

(***************************************************************************)
(* Program constants.                                                      *)
(***************************************************************************)
HTTP_OK == 200
ErrorSnippetLen == 200
ProgressEvery == 10

(***************************************************************************)
(* Texts.                                                                  *)
(***************************************************************************)
STR_exception == <<"e", "x", "c", "e", "p", "t", "i", "o", "n">>
STR_unknown == <<"u", "n", "k", "n", "o", "w", "n">>
TXT_empty == <<>>
TXT_a_b == <<"a", " ", "b">>
TXT_word == <<" ", "a", "b", " ">>
TXT_refused == <<"r", "e", "f", "u", "s", "e", "d">>
TXT_timeout == <<"t", "i", "m", "e", "o", "u", "t">>
TXT_oops == <<"o", "o", "p", "s">>
\* A body one character longer than the error snippet.
TXT_long == [k \in 1..(ErrorSnippetLen + 1) |-> "x"]

IsSpace(c) == c \in {" ", "\t", "\n"}

\* len(content.split()): the number of maximal runs of non-whitespace.
SplitCount(s) ==
    Cardinality({k \in 1..Len(s) : ~IsSpace(s[k]) /\ (k = 1 \/ IsSpace(s[k - 1]))})

\* The whole text, whatever its length.
PrefixAll(s, n) == s

\* text[:n]
Prefix(s, n) == SubSeq(s, 1, IF Len(s) < n THEN Len(s) ELSE n)

Digit(d) == <<"0", "1", "2", "3", "4", "5", "6", "7", "8", "9">>[d + 1]

RECURSIVE IntToStr(_)
\* str(n) for an int n >= 0
IntToStr(n) == IF n < 10 THEN <<Digit(n)>> ELSE IntToStr(n \div 10) \o <<Digit(n % 10)>>

(***************************************************************************)
(* What requests.post can give back to send_request: a response (status    *)
(* code, text, and what response.json() and the subscripts make of the     *)
(* body) after `elapsed` ticks, or an exception.                           *)
(*   shape "content"      : JSON with choices[0].message.content a string  *)
(*   shape "invalid_json" : response.json() raises ValueError              *)
(*   shape "no_choices"   : valid JSON, the subscripts raise KeyError      *)
(*   shape "null_content" : content is null, content.split() raises       *)
(***************************************************************************)
Response(code, text, shape, content, elapsed) ==
    [kind |-> "response", status_code |-> code, text |-> text,
     shape |-> shape, content |-> content, elapsed |-> elapsed]

Raised(message) == [kind |-> "exception", message |-> message]

NetResults ==
    { Response(HTTP_OK, TXT_a_b, "content", TXT_a_b, 3),
      Response(HTTP_OK, TXT_word, "content", TXT_word, 12),
      Response(HTTP_OK, TXT_oops, "invalid_json", TXT_empty, 1),
      Response(HTTP_OK, TXT_oops, "no_choices", TXT_empty, 1),
      Response(HTTP_OK, TXT_oops, "null_content", TXT_empty, 2),
      Response(500, TXT_oops, "content", TXT_a_b, 1),
      Response(404, TXT_empty, "invalid_json", TXT_empty, 1),
      Response(503, TXT_long, "invalid_json", TXT_empty, 1),
      Raised(TXT_refused),
      Raised(TXT_timeout) }

\* The answers the endpoint gives in the concurrent run: a success and a
\* connection failure.
Answers ==
    { Response(HTTP_OK, TXT_a_b, "content", TXT_a_b, 1),
      Raised(TXT_refused) }

\* The message of the exception raised inside the try block on a 200 response
\* whose body is not the expected JSON.
BodyError(n) == <<"b", "a", "d", " ">> \o
    (IF n.shape = "invalid_json" THEN <<"j", "s", "o", "n">>
     ELSE IF n.shape = "no_choices" THEN <<"k", "e", "y">>
     ELSE <<"t", "y", "p", "e">>)

\* What a block of code ends with: a returned value or a raised exception.
Return(v) == [raised |-> FALSE, value |-> v]
Raise(message) == [raised |-> TRUE, exc |-> message]

\* The try block of send_request on network result n.
try_block(n, request_id) ==
    IF n.kind = "exception" THEN Raise(n.message)
    ELSE IF n.status_code = HTTP_OK
    THEN IF n.shape = "content"
         THEN Return([success |-> TRUE, latency |-> n.elapsed,
                      tokens |-> SplitCount(n.content), request_id |-> request_id])
         ELSE Raise(BodyError(n))
    ELSE Return([success |-> FALSE, status |-> n.status_code,
                 error |-> IF n.text # <<>> THEN Prefix(n.text, ErrorSnippetLen)
                           ELSE <<>>,
                 request_id |-> request_id])

\* send_request with the except clause missing: the exception escapes.
send_request_unguarded(n, request_id) ==
    LET r == try_block(n, request_id) IN IF r.raised THEN r ELSE r.value

\* send_request: what the call gives back for network result n.
send_request(n, request_id) ==
    LET r == try_block(n, request_id)
    IN IF r.raised
       THEN [success |-> FALSE, error |-> r.exc, request_id |-> request_id]
       ELSE r.value

(***************************************************************************)
(* Python values used by generate_report.                                  *)
(***************************************************************************)
RECURSIVE GCD(_, _)
GCD(a, b) == IF b = 0 THEN a ELSE GCD(b, a % b)

\* The quotient n / d (d > 0) of true division, in lowest terms.  (Here and
\* below an argument is bound as nv \in {n} so that it is evaluated once.)
Rat(n, d) ==
    CHOOSE q \in {<<nv \div GCD(nv, dv), dv \div GCD(nv, dv)>> : nv \in {n}, dv \in {d}} :
        TRUE

RatLeq(x, y) == x[1] * y[2] <= y[1] * x[2]

\* A dictionary lookup result is an int or a str.
PyInt(v) == [t |-> "int", v |-> v]
PyStr(v) == [t |-> "str", v |-> v]

\* Truth value of an int or a str, as `or` tests it.
Truthy(x) == IF x.t = "int" THEN x.v # 0 ELSE x.v # <<>>

\* str(x)
Str(x) == IF x.t = "int" THEN IntToStr(x.v) ELSE x.v

\* x or y
PyOr(x, y) == IF Truthy(x) THEN x ELSE y

RECURSIVE SumSeq(_)
SumSeq(s) == IF s = <<>> THEN 0 ELSE Head(s) + SumSeq(Tail(s))

\* min() taken as the first element of the list.
MinFirst(s) == s[1]

MinSeq(s) == CHOOSE x \in {s[k] : k \in 1..Len(s)} : \A k \in 1..Len(s) : x <= s[k]
MaxSeq(s) == CHOOSE x \in {s[k] : k \in 1..Len(s)} : \A k \in 1..Len(s) : x >= s[k]

IsSuccess(r) == r.success

\* The positions of the failed and of the successful outcomes of a list.
Failures(rs) == {k \in 1..Len(rs) : ~rs[k].success}
Successes(rs) == {k \in 1..Len(rs) : rs[k].success}

\* result.get("status", "exception") or result.get("error", "unknown")
error_key(result) ==
    PyOr(IF "status" \in DOMAIN result THEN PyInt(result.status) ELSE PyStr(STR_exception),
         IF "error" \in DOMAIN result THEN PyStr(result.error) ELSE PyStr(STR_unknown))

\* An errors dictionary that records each key once, without counting.
error_analysis_uncounted(results) ==
    [key \in {Str(error_key(results[k])) : k \in Failures(results)} |-> 1]

RECURSIVE error_analysis(_)
\* The errors dictionary after the loop over results: a function from the
\* keys seen to their counts.
error_analysis(results) ==
    IF results = <<>> THEN <<>>
    ELSE LET n == Len(results)
             errors == error_analysis(SubSeq(results, 1, n - 1))
             result == results[n]
         IN IF ~result.success
            THEN LET key == Str(error_key(result))
                     withDefault == IF key \in DOMAIN errors THEN errors
                                    ELSE errors @@ (key :> 0)
                 IN [withDefault EXCEPT ![key] = @ + 1]
            ELSE errors

(***************************************************************************)
(* Floating-point arithmetic.  The latencies are floats, and their sum and *)
(* average are rounded after every operation.  A float is modelled as a    *)
(* binary float of MantissaBits significant bits (53 in Python), rounded  *)
(* to nearest, ties to even, with values written as exact rationals.       *)
(***************************************************************************)
RECURSIVE Pow(_, _)
Pow(b, k) == IF k = 0 THEN 1 ELSE b * Pow(b, k - 1)

\* The integer nearest to a / b, ties to the even one.
RoundHalfEven(a, b) ==
    LET f == a \div b
        r == a % b
    IN IF 2 * r < b THEN f
       ELSE IF 2 * r > b THEN f + 1
       ELSE IF f % 2 = 0 THEN f ELSE f + 1

\* A significand m has MantissaBits bits: SignificandMin <= m < SignificandEnd.
SignificandEnd == Pow(2, MantissaBits)
SignificandMin == Pow(2, MantissaBits - 1)

RECURSIVE FlScaled(_, _, _, _)
\* The float nearest to (a / b) * (up / down), for a > 0: a / b is halved or
\* doubled (and up or down doubled with it) until it is in the range of a
\* significand, and rounded there.
FlScaled(a, b, up, down) ==
    IF a >= SignificandEnd * b THEN FlScaled(a, 2 * b, 2 * up, down)
    ELSE IF a < SignificandMin * b THEN FlScaled(2 * a, b, up, 2 * down)
    ELSE Rat(RoundHalfEven(a, b) * up, down)

\* The float nearest to a / b (a >= 0, b > 0).
FlRound(a, b) == IF a = 0 THEN <<0, 1>> ELSE FlScaled(a, b, 1, 1)

FlAdd(x, y) ==
    CHOOSE q \in {FlRound(xv[1] * yv[2] + yv[1] * xv[2], xv[2] * yv[2]) :
                     xv \in {x}, yv \in {y}} : TRUE
FlMul(x, y) ==
    CHOOSE q \in {FlRound(xv[1] * yv[1], xv[2] * yv[2]) : xv \in {x}, yv \in {y}} : TRUE
FlDiv(x, y) ==
    CHOOSE q \in {FlRound(xv[1] * yv[2], xv[2] * yv[1]) : xv \in {x}, yv \in {y}} : TRUE

RECURSIVE FlSumFrom(_, _)
\* sum() of a list of floats: added to the start value from left to right.
FlSumFrom(acc, s) ==
    IF s = <<>> THEN acc ELSE FlSumFrom(FlAdd(acc, <<Head(s), 1>>), Tail(s))

FlSum(s) == FlSumFrom(<<0, 1>>, s)

\* The latencies of the successful outcomes.
latencies_of(successful) == [k \in 1..Len(successful) |-> successful[k].latency]

\* sum(latencies) / len(latencies)
avg_latency_of(latencies) == FlDiv(FlSum(latencies), <<Len(latencies), 1>>)

\* The latency fields of the summary, computed over the successes.
latency_stats(successful) ==
    LET latencies == latencies_of(successful)
    IN [avg_latency |-> avg_latency_of(latencies),
        min_latency |-> MinSeq(latencies),
        max_latency |-> MaxSeq(latencies)]

\* The token fields with the average taken over all requests.
token_stats_per_request(successful, config) ==
    LET tokens_list == [k \in 1..Len(successful) |-> successful[k].tokens]
        total_tokens == SumSeq(tokens_list)
    IN [total_tokens |-> total_tokens,
        avg_tokens_per_request |-> Rat(total_tokens, config.total_requests),
        tokens_per_second |->
            FlDiv(<<total_tokens, 1>>,
                  FlMul(avg_latency_of(latencies_of(successful)),
                        <<config.max_workers, 1>>))]

\* The token fields of the summary, computed over the successes.
token_stats(successful, config) ==
    LET tokens_list == [k \in 1..Len(successful) |-> successful[k].tokens]
        total_tokens == SumSeq(tokens_list)
    IN [total_tokens |-> total_tokens,
        avg_tokens_per_request |-> Rat(total_tokens, Len(successful)),
        tokens_per_second |->
            FlDiv(<<total_tokens, 1>>,
                  FlMul(avg_latency_of(latencies_of(successful)),
                        <<config.max_workers, 1>>))]

\* The summary fields added for the successes, with the token fields left out.
success_stats_latency_only(successful, config) == latency_stats(successful)

\* The latency and token fields of the summary, computed over the successes.
success_stats(successful, config) ==
    latency_stats(successful) @@ token_stats(successful, config)

\* The share of the failed outcomes, reported as the success rate.
success_rate_of_failed(successful, results) ==
    IF results # <<>> THEN Rat(Len(results) - Len(successful), Len(results))
    ELSE Rat(0, 1)

success_rate(successful, results) ==
    IF results # <<>> THEN Rat(Len(successful), Len(results)) ELSE Rat(0, 1)

has_failures(failed) == failed > 0

generate_report(results, config) ==
    LET successful == SelectSeq(results, IsSuccess)
        failed == Len(results) - Len(successful)
        base == [total_requests |-> Len(results),
                 concurrency |-> config.max_workers,
                 jitter |-> config.jitter,
                 success_rate |-> success_rate(successful, results),
                 failed |-> failed]
        summary == IF successful # <<>> THEN base @@ success_stats(successful, config)
                   ELSE base
        report == [config |-> config, summary |-> summary]
    IN IF has_failures(failed)
       THEN report @@ [error_analysis |-> error_analysis(results)]
       ELSE report

(***************************************************************************)
(* The run: main calls parallel_execute_requests, then generate_report.    *)
(***************************************************************************)
VARIABLES
    total_requests,  \* args.requests
    max_workers,     \* args.concurrency
    jitter,          \* args.jitter: 0, or 1 for any positive value
    pc,              \* position of the main thread
    i,               \* the submission loop's variable
    futures,         \* the list futures, as the request ids submitted
    work_queue,      \* the executor's FIFO queue of work items not yet taken
    num_threads,     \* worker threads the executor has started
    idle,            \* the executor's idle semaphore
    running,         \* request ids whose send_request has started and not returned
    calls,           \* request id -> number of calls of send_request with it
    answer,          \* request id -> what the endpoint answered (finished requests)
    outcome,         \* request id -> the future's result (finished requests)
    finished_waiting, \* finished requests not yet collected, oldest first
    yield_list,      \* as_completed: finished futures it is about to yield
    pending,         \* as_completed: futures not yet yielded
    waiter_finished, \* as_completed: the waiter's finished_futures list
    results,         \* the list results
    progress,        \* the progress lines printed: <<completed, successes>>
    sleeps,          \* jitter sleeps performed
    report           \* main's report, once generated

vars == <<total_requests, max_workers, jitter, pc, i, futures, work_queue, num_threads,
          idle, running, calls, answer, outcome, finished_waiting, yield_list,
          pending, waiter_finished, results, progress, sleeps, report>>

params == <<total_requests, max_workers, jitter>>
pool == <<work_queue, num_threads, idle, running, calls, answer, outcome>>
collector == <<yield_list, pending, waiter_finished, results, progress>>

Jitters == {0, 1}

NoReport == [config |-> <<>>]

Range(s) == {s[k] : k \in 1..Len(s)}

\* The orders in which a set can be iterated.
Orderings(S) ==
    {s \in [1..Cardinality(S) -> S] : \A a, b \in 1..Cardinality(S) : a # b => s[a] # s[b]}

Init ==
    /\ total_requests \in 0..MaxRequests
    /\ max_workers \in 1..MaxWorkers
    /\ jitter \in Jitters
    /\ pc = "submit"
    /\ i = 0
    /\ futures = <<>>
    /\ work_queue = <<>>
    /\ num_threads = 0
    /\ idle = 0
    /\ running = {}
    /\ calls = <<>>
    /\ answer = <<>>
    /\ outcome = <<>>
    /\ finished_waiting = <<>>
    /\ yield_list = <<>>
    /\ pending = {}
    /\ waiter_finished = <<>>
    /\ results = <<>>
    /\ progress = <<>>
    /\ sleeps = 0
    /\ report = NoReport

\* A pool that starts a thread for every submitted task.
threads_unbounded(n) == n + 1

\* ThreadPoolExecutor._adjust_thread_count: reuse an idle worker, else start
\* a thread while fewer than max_workers exist.
threads_after_submit(n) == IF n < max_workers THEN n + 1 ELSE n

\* A submission loop that sleeps whatever the jitter.
sleeps_always == TRUE

\* if jitter > 0.0: the loop sleeps after the submission.
sleeps_after_submit == jitter > 0

\* executor.submit(send_request, url, prompt, i), then the jitter test.
Submit ==
    /\ pc = "submit"
    /\ i < total_requests
    /\ futures' = Append(futures, i)
    /\ work_queue' = Append(work_queue, i)
    /\ IF idle > 0
       THEN idle' = idle - 1 /\ num_threads' = num_threads
       ELSE idle' = idle /\ num_threads' = threads_after_submit(num_threads)
    /\ IF sleeps_after_submit
       THEN pc' = "sleep" /\ i' = i
       ELSE pc' = "submit" /\ i' = i + 1
    /\ UNCHANGED <<params, running, calls, answer, outcome, finished_waiting,
                   collector, sleeps, report>>

\* time.sleep(jitter * random.random()) returns.
Wake ==
    /\ pc = "sleep"
    /\ sleeps' = sleeps + 1
    /\ i' = i + 1
    /\ pc' = "submit"
    /\ UNCHANGED <<params, futures, pool, finished_waiting, collector, report>>

\* A worker thread may take a work item when it runs none.
worker_free == Cardinality(running) < num_threads

\* The count of calls after send_request is called with request id `id`.
called(id) ==
    IF id \in DOMAIN calls THEN [calls EXCEPT ![id] = @ + 1] ELSE calls @@ (id :> 1)

\* A queue that gives the newest work item first.
queue_get_newest ==
    <<work_queue[Len(work_queue)], SubSeq(work_queue, 1, Len(work_queue) - 1)>>

\* work_queue.get(): the oldest work item, and the queue without it.
queue_get == <<Head(work_queue), Tail(work_queue)>>

\* A worker takes the oldest work item and calls send_request.
StartRequest ==
    /\ work_queue # <<>>
    /\ worker_free
    /\ running' = running \cup {queue_get[1]}
    /\ calls' = called(queue_get[1])
    /\ work_queue' = queue_get[2]
    /\ UNCHANGED <<params, pc, i, futures, num_threads, idle, answer, outcome,
                   finished_waiting, collector, sleeps, report>>

\* Whether as_completed has installed its waiter on the futures.
waiter_installed == pc = "collect"

\* A completion that is not reported to the waiter.
notify_nobody(id) == waiter_finished

\* A completion that is reported to the waiter twice.
notify_twice(id) ==
    IF waiter_installed THEN waiter_finished \o <<id, id>> ELSE waiter_finished

\* Future.set_result: what the waiter of as_completed records.
notify_waiter(id) ==
    IF waiter_installed THEN Append(waiter_finished, id) ELSE waiter_finished

\* A worker that submits a failed request once more.
queue_retry(id, o) ==
    IF ~o.success /\ calls[id] < 2 THEN Append(work_queue, id) ELSE work_queue

\* The work queue after send_request has returned o for request id: the
\* except clause returns the failure, nothing is submitted again.
queue_after_finish(id, o) == work_queue

\* send_request returns in a worker; the future gets its result.
FinishRequest ==
    \E id \in running, n \in Answers :
        /\ running' = running \ {id}
        /\ answer' = answer @@ (id :> n)
        /\ outcome' = outcome @@ (id :> send_request(n, id))
        /\ finished_waiting' = Append(finished_waiting, id)
        /\ waiter_finished' = notify_waiter(id)
        /\ idle' = idle + 1
        /\ work_queue' = queue_after_finish(id, send_request(n, id))
        /\ UNCHANGED <<params, pc, i, futures, num_threads, calls, yield_list, pending,
                       results, progress, sleeps, report>>

\* as_completed(futures) starts: the futures already finished are put in a
\* set and will be yielded in that set's iteration order.
AsCompletedStart ==
    /\ pc = "submit"
    /\ i >= total_requests
    /\ LET fs == Range(futures)
           finished == fs \cap DOMAIN outcome
       IN /\ yield_list' \in Orderings(finished)
          /\ pending' = fs
    /\ waiter_finished' = <<>>
    /\ pc' = "collect"
    /\ UNCHANGED <<params, i, futures, pool, finished_waiting, results, progress,
                   sleeps, report>>

\* A progress line at every ProgressEvery-th outcome only.
prints_progress_every(k) == k % ProgressEvery = 0

\* Whether the collector prints a progress line after the k-th outcome.
prints_progress(k) == k % ProgressEvery = 0 \/ k - 1 = total_requests - 1


\* The futures as_completed can yield now: the rest of the list it is
\* yielding from, else what the waiter has recorded since, oldest first.
ready == IF yield_list # <<>> THEN yield_list ELSE waiter_finished

\* One iteration of the collection loop: as_completed yields a future,
\* its result is appended, and progress is printed.
Collect ==
    /\ pc = "collect"
    /\ ready # <<>>
    /\ LET future == Head(ready)
           appended == Append(results, outcome[future])
           k == Len(appended)
       IN /\ results' = appended
          /\ pending' = pending \ {future}
          /\ progress' = IF prints_progress(k)
                         THEN Append(progress, <<k, Len(SelectSeq(appended, IsSuccess))>>)
                         ELSE progress
    /\ yield_list' = Tail(ready)
    /\ finished_waiting' = SelectSeq(finished_waiting, LAMBDA id : id # Head(ready))
    /\ waiter_finished' = IF yield_list # <<>> THEN waiter_finished ELSE <<>>
    /\ UNCHANGED <<params, pc, i, futures, pool, sleeps, report>>

\* The collection loop stopping as soon as nothing is ready.
collection_done_early == ready = <<>>

\* The collection loop giving up at the first failed outcome.
collection_done_on_failure ==
    (ready = <<>> /\ pending = {}) \/ Failures(results) # {}

\* as_completed is exhausted when no future is pending.
collection_done == ready = <<>> /\ pending = {}

\* The collection loop ends.
EndCollect ==
    /\ pc = "collect"
    /\ collection_done
    /\ pc' = "shutdown"
    /\ UNCHANGED <<params, i, futures, pool, finished_waiting, collector, sleeps,
                   report>>

\* The with block exits: executor.shutdown(wait=True) joins the workers, and
\* parallel_execute_requests returns results.
Shutdown ==
    /\ pc = "shutdown"
    /\ work_queue = <<>>
    /\ running = {}
    /\ pc' = "returned"
    /\ UNCHANGED <<params, i, futures, pool, finished_waiting, collector, sleeps,
                   report>>

config == [total_requests |-> total_requests, max_workers |-> max_workers,
           jitter |-> jitter]

\* main: report = generate_report(results, config)
GenerateReport ==
    /\ pc = "returned"
    /\ report' = generate_report(results, config)
    /\ pc' = "reported"
    /\ UNCHANGED <<params, i, futures, pool, finished_waiting, collector, sleeps>>

Next ==
    \/ Submit
    \/ Wake
    \/ StartRequest
    \/ FinishRequest
    \/ AsCompletedStart
    \/ Collect
    \/ EndCollect
    \/ Shutdown
    \/ GenerateReport

Spec == Init /\ [][Next]_vars

\* The threads are scheduled fairly, every sleep ends and every network
\* call returns (requests.post has timeout=60).
MainThread == Submit \/ Wake \/ AsCompletedStart \/ Collect \/ EndCollect
                \/ Shutdown \/ GenerateReport
Worker == StartRequest \/ FinishRequest

FairSpec == Spec /\ WF_vars(MainThread) /\ WF_vars(Worker)

(***************************************************************************)
(* Longer runs, for the progress lines: up to MaxProgressRequests requests *)
(* on one worker without jitter, every request started once the           *)
(* collection loop waits and the outcomes before it are collected.  The   *)
(* outcomes still succeed and fail in every combination.                   *)
(***************************************************************************)
ProgressInit ==
    /\ total_requests \in 0..MaxProgressRequests
    /\ max_workers = 1
    /\ jitter = 0
    /\ pc = "submit"
    /\ i = 0
    /\ futures = <<>>
    /\ work_queue = <<>>
    /\ num_threads = 0
    /\ idle = 0
    /\ running = {}
    /\ calls = <<>>
    /\ answer = <<>>
    /\ outcome = <<>>
    /\ finished_waiting = <<>>
    /\ yield_list = <<>>
    /\ pending = {}
    /\ waiter_finished = <<>>
    /\ results = <<>>
    /\ progress = <<>>
    /\ sleeps = 0
    /\ report = NoReport

StartNextRequest == pc = "collect" /\ finished_waiting = <<>> /\ StartRequest

ProgressNext ==
    \/ Submit
    \/ StartNextRequest
    \/ FinishRequest
    \/ AsCompletedStart
    \/ Collect
    \/ EndCollect
    \/ Shutdown
    \/ GenerateReport

ProgressSpec == ProgressInit /\ [][ProgressNext]_vars

(***************************************************************************)
(* send_request and generate_report as functions: send_request is called   *)
(* for the ids 0, 1, ... with every network result, and generate_report    *)
(* is applied to the list of the outcomes.                                 *)
(***************************************************************************)
\* send_request(url, prompt, request_id) with the next id, the endpoint
\* answering n.
SendRequestCalled(n) ==
    /\ pc = "submit"
    /\ Len(results) < total_requests
    /\ LET id == Len(results)
       IN /\ answer' = answer @@ (id :> n)
          /\ outcome' = outcome @@ (id :> send_request(n, id))
          /\ results' = Append(results, send_request(n, id))
          /\ calls' = called(id)
          /\ futures' = Append(futures, id)
          /\ i' = i + 1
    /\ UNCHANGED <<params, pc, work_queue, num_threads, idle, running,
                   finished_waiting, yield_list, pending, waiter_finished, progress,
                   sleeps, report>>

CallSendRequest == \E n \in NetResults : SendRequestCalled(n)

\* generate_report(results, config)
CallGenerateReport ==
    /\ pc = "submit"
    /\ Len(results) = total_requests
    /\ report' = generate_report(results, config)
    /\ pc' = "reported"
    /\ UNCHANGED <<params, i, futures, pool, finished_waiting, collector, sleeps>>

CallsNext == CallSendRequest \/ CallGenerateReport

CallsSpec == Init /\ [][CallsNext]_vars

(***************************************************************************)
(* generate_report on the lists of four kinds of outcome: two successes of *)
(* different latency and token count, a failure with a status code and a   *)
(* failure with an error text.                                             *)
(***************************************************************************)
ReportAnswers ==
    { Response(HTTP_OK, TXT_a_b, "content", TXT_a_b, 3),
      Response(HTTP_OK, TXT_word, "content", TXT_word, 12),
      Response(500, TXT_oops, "content", TXT_a_b, 1),
      Raised(TXT_refused) }

CallSendRequestForReport == \E n \in ReportAnswers : SendRequestCalled(n)

ReportsNext == CallSendRequestForReport \/ CallGenerateReport

ReportsSpec == Init /\ [][ReportsNext]_vars

(***************************************************************************)
(* Properties.                                                             *)
(***************************************************************************)
Returned == pc \in {"returned", "reported"}

Collected == {results[k].request_id : k \in 1..Len(results)}

Finished == DOMAIN outcome

\* C1: when parallel_execute_requests has returned, results holds exactly
\* total_requests outcomes and their request_id values are exactly
\* 0..total_requests-1, each once.
C1_AllOutcomesOnce ==
    Returned =>
        /\ Len(results) = total_requests
        /\ Collected = 0..(total_requests - 1)
        /\ \A a, b \in 1..Len(results) :
              results[a].request_id = results[b].request_id => a = b

\* A run that returned several outcomes, collected out of submission order.
C1_Witness ==
    /\ pc = "returned"
    /\ total_requests >= 2
    /\ results[1].request_id # 0

\* C2: at most max_workers send_request calls are in progress at any time.
C2_BoundedConcurrency == Cardinality(running) <= max_workers

\* Every worker is busy while tasks wait in the queue.
C2_Witness ==
    /\ max_workers >= 2
    /\ Cardinality(running) = max_workers
    /\ work_queue # <<>>

\* C3: outcomes are appended to results in the order in which their
\* dispatches finished.
C3_CollectedInCompletionOrder ==
    [][Len(results') > Len(results) =>
          results'[Len(results')].request_id = Head(finished_waiting)]_vars

\* C4 as stated: whenever a finished outcome is not yet collected, the
\* collector can take an outcome (or is entering the collection loop),
\* also while other tasks are not yet submitted.
C4_CollectableAtOnce ==
    (Finished \ Collected # {}) => ENABLED (Collect \/ AsCompletedStart)

\* C4: once collection has started, whenever a finished outcome is not yet
\* collected the collector can take an outcome, whatever the other requests
\* (running or still queued) are doing.
C4_CollectableOnceCollecting ==
    (pc = "collect" /\ Finished \ Collected # {}) => ENABLED Collect

\* An outcome waits to be collected while another request is still running
\* and a third one is still queued.
C4_Witness ==
    /\ pc = "collect"
    /\ Finished \ Collected # {}
    /\ running # {}
    /\ work_queue # <<>>

\* C5: parallel_execute_requests has returned only when every submitted task
\* has finished; and under fair scheduling all tasks are eventually
\* submitted and the function eventually returns.
C5_DrainedThenReturns ==
    /\ [](Returned => /\ Len(futures) = total_requests
                      /\ Finished = 0..(total_requests - 1)
                      /\ work_queue = <<>>
                      /\ running = {})
    /\ <>Returned

\* The function has returned from a run with as many requests as the bound.
C5_Witness ==
    /\ pc = "returned"
    /\ total_requests = MaxRequests
    /\ sleeps > 0

IsSuccessOutcome(o, id) ==
    /\ DOMAIN o = {"success", "latency", "tokens", "request_id"}
    /\ o.success = TRUE
    /\ o.request_id = id

IsFailureOutcome(o, id) ==
    /\ {"success", "request_id"} \subseteq DOMAIN o
    /\ "latency" \notin DOMAIN o
    /\ "tokens" \notin DOMAIN o
    /\ o.success = FALSE
    /\ o.request_id = id

\* C6: for every network result send_request gives back an outcome with the
\* given request_id that is a success (latency and tokens, no status, no
\* error) or a failure (no latency, no tokens); no exception escapes.
C6_SendRequestTotal ==
    \A id \in DOMAIN outcome :
        /\ "success" \in DOMAIN outcome[id]
        /\ IsSuccessOutcome(outcome[id], id) \/ IsFailureOutcome(outcome[id], id)

\* send_request has been called on a 200 response with a malformed body, on
\* a non-200 response and on a well-formed one.
C6_Witness ==
    /\ \E id \in DOMAIN answer :
          /\ answer[id].kind = "response"
          /\ answer[id].status_code = HTTP_OK
          /\ answer[id].shape = "null_content"
    /\ \E id \in DOMAIN answer :
          answer[id].kind = "response" /\ answer[id].status_code # HTTP_OK
    /\ \E id \in DOMAIN answer : outcome[id].success

\* C7: whatever requests fail, the run goes on to its end, collects
\* total_requests outcomes and produces a report, and every collected
\* outcome is the one its own request's answer gives.
C7_FailuresIsolated ==
    /\ pc # "reported" => ENABLED Next
    /\ \A k \in 1..Len(results) :
          LET id == results[k].request_id
          IN id \in DOMAIN answer /\ results[k] = send_request(answer[id], id)
    /\ pc = "reported" =>
          /\ Len(results) = total_requests
          /\ report = generate_report(results, config)
          /\ report.summary.total_requests = total_requests
          /\ report.summary.failed = Cardinality(Failures(results))

\* A report of a run in which a request failed and another succeeded.
C7_Witness ==
    /\ pc = "reported"
    /\ Failures(results) # {}
    /\ Successes(results) # {}

\* The key C8 gives a failed outcome: the status code, else the error text,
\* else "unknown".
C8_Key(r) ==
    IF "status" \in DOMAIN r THEN IntToStr(r.status)
    ELSE IF "error" \in DOMAIN r THEN r.error
    ELSE STR_unknown

\* C8: the error histogram counts each failed outcome under its status
\* code, else its transport error text, else "unknown".
C8_KeyPrecedence ==
    (pc = "reported" /\ "error_analysis" \in DOMAIN report) =>
        LET keys == {C8_Key(results[k]) : k \in Failures(results)}
        IN /\ DOMAIN report.error_analysis = keys
           /\ \A key \in keys :
                 report.error_analysis[key] =
                     Cardinality({k \in Failures(results) : C8_Key(results[k]) = key})

RECURSIVE SumOver(_, _)
SumOver(f, S) ==
    IF S = {} THEN 0
    ELSE LET x == CHOOSE x \in S : TRUE IN f[x] + SumOver(f, S \ {x})

\* C9: error_analysis is in the report exactly when an outcome failed, and
\* then its counts sum to the number of failed outcomes, which is the
\* summary's failed field.
C9_HistogramSum ==
    pc = "reported" =>
        /\ "error_analysis" \in DOMAIN report <=> Failures(results) # {}
        /\ report.summary.failed = Cardinality(Failures(results))
        /\ "error_analysis" \in DOMAIN report =>
              SumOver(report.error_analysis, DOMAIN report.error_analysis)
                  = Cardinality(Failures(results))

\* A report of outcomes of which several failed the same way and one another way.
C9_Witness ==
    /\ pc = "reported"
    /\ "error_analysis" \in DOMAIN report
    /\ Cardinality(DOMAIN report.error_analysis) >= 2
    /\ \E key \in DOMAIN report.error_analysis : report.error_analysis[key] >= 2

\* C10: success_rate is successes / outcomes and lies in [0,1]; it is 1 when
\* every outcome of a non-empty list succeeded and 0 for the empty list.
C10_SuccessRate ==
    pc = "reported" =>
        LET rate == report.summary.success_rate
            n == Len(results)
            s == Cardinality(Successes(results))
        IN /\ rate[2] > 0
           /\ 0 <= rate[1] /\ rate[1] <= rate[2]
           /\ n > 0 => rate[1] * n = s * rate[2]
           /\ (n > 0 /\ s = n) => rate = <<1, 1>>
           /\ n = 0 => rate = <<0, 1>>

\* A report with a success rate strictly between 0 and 1.
C10_Witness ==
    /\ pc = "reported"
    /\ Successes(results) # {}
    /\ Failures(results) # {}
    /\ report.summary.success_rate = <<2, 3>>

SummaryHas(field) == field \in DOMAIN report.summary

StatFields == {"avg_latency", "min_latency", "max_latency", "total_tokens",
               "avg_tokens_per_request", "tokens_per_second"}

\* C11: the latency and token fields of the summary are all present when an
\* outcome succeeded, and none of them is present otherwise.
C11_StatsIffSuccess ==
    pc = "reported" =>
        /\ Successes(results) # {} => \A f \in StatFields : SummaryHas(f)
        /\ Successes(results) = {} => \A f \in StatFields : ~SummaryHas(f)

\* A report of a single success among failures, with every statistic.
C11_Witness ==
    /\ pc = "reported"
    /\ Cardinality(Successes(results)) = 1
    /\ Failures(results) # {}
    /\ \A f \in StatFields : SummaryHas(f)

\* C12: send_request classifies the network result: a 200 response whose body
\* has choices[0].message.content gives a success; a response with another
\* status gives a failure carrying that status code and the first
\* min(200, length) characters of the body; an exception of requests.post or
\* a 200 response with a malformed body gives a failure with an error text
\* and no status code.
C12_Classified ==
    \A id \in DOMAIN outcome :
        LET n == answer[id]
            o == outcome[id]
        IN IF n.kind = "response" /\ n.status_code # HTTP_OK
           THEN /\ ~o.success
                /\ "status" \in DOMAIN o /\ o.status = n.status_code
                /\ Len(o.error) = (IF Len(n.text) < ErrorSnippetLen THEN Len(n.text) ELSE ErrorSnippetLen)
                /\ o.error = SubSeq(n.text, 1, Len(o.error))
           ELSE IF n.kind = "response" /\ n.shape = "content"
           THEN o.success
           ELSE /\ ~o.success
                /\ "status" \notin DOMAIN o
                /\ "error" \in DOMAIN o
                /\ o.error = (IF n.kind = "exception" THEN n.message ELSE BodyError(n))

C12_Witness ==
    /\ \E id \in DOMAIN outcome :
          /\ answer[id].kind = "response" /\ answer[id].status_code # HTTP_OK
          /\ Len(answer[id].text) > ErrorSnippetLen
          /\ Len(outcome[id].error) = ErrorSnippetLen
    /\ \E id \in DOMAIN outcome : outcome[id].success
    /\ \E id \in DOMAIN outcome :
          answer[id].kind = "response" /\ answer[id].status_code = HTTP_OK
              /\ ~outcome[id].success
Started == running \cup Finished

Submitted == Range(futures)

\* C13: at every moment of a run results holds no request_id twice and only
\* the outcomes of finished dispatches (collected within finished within
\* started within submitted), and while the collection loop runs every
\* finished outcome not yet collected is held by as_completed, so none is
\* lost when several workers finish together.
C13_NoLossNoDuplicate ==
    /\ Cardinality(Collected) = Len(results)
    /\ \A k \in 1..Len(results) :
          /\ results[k].request_id \in Finished
          /\ results[k] = outcome[results[k].request_id]
    /\ Collected \subseteq Finished
    /\ Finished \subseteq Started
    /\ Started \subseteq Submitted
    /\ pc = "collect" =>
          /\ pending = Submitted \ Collected
          /\ Finished \ Collected = Range(yield_list) \cup Range(waiter_finished)

\* Two workers have finished between two iterations of the collection loop.
C13_Witness ==
    /\ pc = "collect"
    /\ results # <<>>
    /\ Len(waiter_finished) >= 2
Queued == Range(work_queue)

\* C14: every request id is dispatched exactly once: send_request is never
\* called twice with an id, a submitted request is queued once or has been
\* started (none is cancelled, none is queued again after it started or
\* failed), and when parallel_execute_requests has returned, send_request has
\* been called once for each id of 0..total_requests-1, total_requests calls
\* in all.
C14_DispatchedOnce ==
    /\ DOMAIN calls = Started
    /\ \A id \in DOMAIN calls : calls[id] = 1
    /\ Cardinality(Queued) = Len(work_queue)
    /\ Queued \cap Started = {}
    /\ Queued \cup Started = Submitted
    /\ Returned =>
          /\ DOMAIN calls = 0..(total_requests - 1)
          /\ SumOver(calls, DOMAIN calls) = total_requests

\* A run of MaxRequests requests has returned with a failed outcome.
C14_Witness ==
    /\ Returned
    /\ total_requests = MaxRequests
    /\ Failures(results) # {}
    /\ SumOver(calls, DOMAIN calls) = MaxRequests
\* The counts k up to n after which a progress line is due: the multiples of
\* 10 and total_requests.
ProgressPoints(n) ==
    SelectSeq([k \in 1..n |-> k], LAMBDA k : k % 10 = 0 \/ k = total_requests)

\* C15: the progress lines printed so far are exactly one line for every
\* k up to the number of collected outcomes that is a multiple of 10 or equal
\* to total_requests, in order, each reporting k and the number of successes
\* among the first k collected outcomes (the rate is their quotient); a run
\* of no requests prints none.
C15_ProgressLines ==
    LET points == ProgressPoints(Len(results))
    IN /\ Len(progress) = Len(points)
       /\ \A j \in 1..Len(points) :
             progress[j] = <<points[j],
                             Cardinality(Successes(SubSeq(results, 1, points[j])))>>
       /\ total_requests = 0 => progress = <<>>

\* A run of 11 requests has printed a line after the 10th outcome, some of
\* the ten being failures, and one after the last.
C15_Witness ==
    /\ Returned
    /\ total_requests = 11
    /\ Len(progress) = 2
    /\ progress[1][1] = 10 /\ progress[1][2] \in 1..9
    /\ progress[2][1] = 11
\* Whether the endpoint's answer n is a 200 response with the expected body.
GoodAnswer(n) == n.kind = "response" /\ n.status_code = HTTP_OK /\ n.shape = "content"

\* C16: jitter changes only the timing of the submissions: with jitter = 0
\* the submission loop never sleeps; whatever the jitter and the sleeps, a
\* run that has returned holds total_requests outcomes with the request ids
\* 0..total_requests-1, as a run with jitter = 0 does; and the success flag
\* of every outcome is determined by the endpoint's answer to that request.
C16_JitterOnlyTiming ==
    /\ jitter = 0 => (sleeps = 0 /\ pc # "sleep")
    /\ Returned =>
          /\ Len(results) = total_requests
          /\ Collected = 0..(total_requests - 1)
    /\ \A id \in Finished : outcome[id].success = GoodAnswer(answer[id])
    /\ \A k \in 1..Len(results) :
          results[k].success = GoodAnswer(answer[results[k].request_id])

\* A run with jitter that has slept and returned successes and failures.
C16_Witness ==
    /\ Returned
    /\ jitter > 0
    /\ sleeps > 0
    /\ total_requests = MaxRequests
    /\ Successes(results) # {}
    /\ Failures(results) # {}

\* Whether the collection loop has been entered.
CollectionStarted == pc \in {"collect", "shutdown", "returned", "reported"}

\* C17: with jitter > 0 the submission loop sleeps only between successive
\* submissions: it does not sleep after the last submission, so that a run
\* of N >= 1 requests has slept N - 1 times when the collection starts; and
\* while it sleeps a running dispatch can finish and a queued one can be
\* taken by a free worker.
C17_SleepsOnlyBetween ==
    /\ pc = "sleep" => i < total_requests - 1
    /\ (jitter > 0 /\ total_requests >= 1 /\ CollectionStarted) =>
          sleeps = total_requests - 1
    /\ (pc = "sleep" /\ running # {}) => ENABLED FinishRequest
    /\ (pc = "sleep" /\ work_queue # <<>> /\ worker_free) => ENABLED StartRequest
\* The list rs rearranged by the permutation p of its positions.
Permuted(rs, p) == [k \in 1..Len(rs) |-> rs[p[k]]]

Rearrangements(rs) == {Permuted(rs, p) : p \in Orderings(1..Len(rs))}

\* The value of a field of a record, or a mark where the record lacks it.
FieldOf(rec, field) == IF field \in DOMAIN rec THEN <<rec[field]>> ELSE <<>>

\* Whether two reports agree on the given fields of the summary and on the
\* error_analysis.
SameReport(r1, r2, fields) ==
    /\ \A f \in fields : FieldOf(r1.summary, f) = FieldOf(r2.summary, f)
    /\ FieldOf(r1, "error_analysis") = FieldOf(r2, "error_analysis")
    /\ r1.config = r2.config

CountFields == {"total_requests", "failed", "success_rate"}

ExactFields == CountFields \cup {"min_latency", "max_latency", "total_tokens",
                                 "avg_tokens_per_request"}

\* Whether the float avg lies within n roundings of the exact x / y:
\*   (x / y) * (1 - u)^n <= avg <= (x / y) * (1 + u)^n,  u = 2^(-MantissaBits).
WithinRounding(avg, x, y, n) ==
    LET one == Pow(2, MantissaBits)
    IN /\ x * Pow(one - 1, n) * avg[2] <= avg[1] * y * Pow(one, n)
       /\ avg[1] * y * Pow(one, n) <= x * Pow(one + 1, n) * avg[2]

\* The outcomes have not been changed since send_request returned them.
ResultsUntouched ==
    \A k \in 1..Len(results) : results[k] = outcome[results[k].request_id]

\* C18 as stated: the report of any rearrangement of the outcome list, with
\* the same config, has the same counts, success_rate, min, avg and max
\* latency, total_tokens and error_analysis, and generate_report leaves the
\* outcome list and the config as they were.
C18_OrderIndependent ==
    pc = "reported" =>
        /\ \A rs \in Rearrangements(results) :
              \A r \in {generate_report(rs, config)} :
                  SameReport(r, report,
                             CountFields \cup {"min_latency", "avg_latency",
                                               "max_latency", "total_tokens"})
        /\ report.config = config
        /\ ResultsUntouched

\* C18 as it holds: the rearrangements agree on everything but the float
\* avg_latency (and the tokens_per_second computed from it), which is the
\* exact mean of the successful latencies up to one rounding per latency.
C18_OrderIndependentUpToRounding ==
    pc = "reported" =>
        /\ \A rs \in Rearrangements(results) :
              \A r \in {generate_report(rs, config)} :
                  LET latencies == latencies_of(SelectSeq(rs, IsSuccess))
                  IN /\ SameReport(r, report, ExactFields)
                     /\ latencies # <<>> =>
                           WithinRounding(r.summary.avg_latency, SumSeq(latencies),
                                          Len(latencies), Len(latencies))
        /\ report.config = config
        /\ ResultsUntouched

\* A report of a failure and two successes of different latencies.
C18_Witness ==
    /\ pc = "reported"
    /\ Failures(results) # {}
    /\ \E j, k \in Successes(results) : results[j].latency < results[k].latency
    /\ "min_latency" \in DOMAIN report.summary
\* The token counts and the latencies of the successful outcomes, by position.
SuccessTokens == [k \in Successes(results) |-> results[k].tokens]

SuccessLatencies == {results[k].latency : k \in Successes(results)}

\* total_tokens and avg_tokens_per_request are taken over the successes only.
TokensOverSuccesses ==
    /\ report.summary.total_tokens = SumOver(SuccessTokens, Successes(results))
    /\ report.summary.avg_tokens_per_request
           = Rat(report.summary.total_tokens, Cardinality(Successes(results)))

\* C19 as stated: when an outcome succeeded, total_tokens is the sum of the
\* token counts of the successes, avg_tokens_per_request is total_tokens
\* divided by the number of successes, and
\* min_latency <= avg_latency <= max_latency.
C19_StatsOverSuccesses ==
    (pc = "reported" /\ Successes(results) # {}) =>
        /\ TokensOverSuccesses
        /\ RatLeq(<<report.summary.min_latency, 1>>, report.summary.avg_latency)
        /\ RatLeq(report.summary.avg_latency, <<report.summary.max_latency, 1>>)

\* C19 as it holds: the token fields as stated; min_latency and max_latency
\* are the least and the greatest latency of the successes; and the float
\* avg_latency lies between them up to one rounding per success:
\*   min * (1 - u)^n <= avg <= max * (1 + u)^n,  u = 2^(-MantissaBits).
C19_StatsOverSuccessesUpToRounding ==
    (pc = "reported" /\ Successes(results) # {}) =>
        LET n == Cardinality(Successes(results))
            min == report.summary.min_latency
            max == report.summary.max_latency
            avg == report.summary.avg_latency
            one == Pow(2, MantissaBits)
        IN /\ TokensOverSuccesses
           /\ min \in SuccessLatencies /\ max \in SuccessLatencies
           /\ \A l \in SuccessLatencies : min <= l /\ l <= max
           /\ min * Pow(one - 1, n) * avg[2] <= avg[1] * Pow(one, n)
           /\ avg[1] * Pow(one, n) <= max * Pow(one + 1, n) * avg[2]

\* A report of a failure and two successes of different token counts.
C19_Witness ==
    /\ pc = "reported"
    /\ total_requests = 3
    /\ Cardinality(Successes(results)) = 2
    /\ report.summary.total_tokens = 3
    /\ report.summary.avg_tokens_per_request = <<3, 2>>
    /\ report.summary.min_latency < report.summary.max_latency
\* C20: the request ids are assigned in submission order, and the dispatches
\* start in that order: when request j has been taken by a worker, every
\* request i < j has been taken too, and the queue holds the others in
\* increasing order.
C20_StartedInOrder ==
    /\ \A k \in 1..Len(futures) : futures[k] = k - 1
    /\ \A j \in Started : \A h \in 0..(j - 1) : h \in Started
    /\ \A a, b \in 1..Len(work_queue) : a < b => work_queue[a] < work_queue[b]

\* Requests that started in order have been collected out of order.
C20_Witness ==
    /\ Started = 0..(MaxRequests - 1)
    /\ \E a, b \in 1..Len(results) :
          a < b /\ results[a].request_id > results[b].request_id
=============================================================================
